---------------------------- MODULE Spec2Model ----------------------------
(***************************************************************************)
(* LISACalculator.calculate_lisa_for_year of streamlit_lisa.py as a state  *)
(* machine.                                                                *)
(*                                                                         *)
(* The function joins the attribute table df (rows of one year, averaged   *)
(* per municipality) with the geometry table df_geo, builds Queen weights, *)
(* runs esda's Moran_Local and labels every row.  Tables are sequences of  *)
(* records.  Floating point values are exact rationals <<num, den>> with   *)
(* den > 0, and NaN is <<0, 0>>.                                           *)
(*                                                                         *)
(* Three things are done for the function by libpysal and esda:            *)
(*   Queen.from_dataframe  the neighbours of every row.  The adjacency     *)
(*       the library detects among the geometries is the input             *)
(*       `contiguity`; the call may also raise (the geometries are         *)
(*       points), which the function turns into None.                      *)
(*   Moran_Local           z = (y - mean) / std, lag = W z,                *)
(*       Is = (n - 1) z lag / sum(z^2), q from the signs of z and lag,     *)
(*       p_sim = (larger + 1) / (permutations + 1) with the folded count   *)
(*       larger of simulated statistics >= Is.  A simulated statistic of   *)
(*       row i replaces its neighbours by as many of the other rows,       *)
(*       picked by an unseeded random stream: the 999 of them are a        *)
(*       nondeterministic draw among the values such picks can give,       *)
(*       summarised by the two counts a p-value can be built from.         *)
(***************************************************************************)
EXTENDS Integers, Sequences, FiniteSets, TLC

VARIABLES
    GEOSPATIAL_AVAILABLE,  \* module flag set by the imports
    df,                    \* attribute table: rows cod_mun, Ano, taxa, UF, Regiao
    df_geo,                \* geometry table: rows cod_mun (one point each)
    contiguity,            \* pairs of unit ids whose geometries libpysal finds adjacent
    ano,                   \* requested year
    pc,                    \* position in the function
    trace,                 \* stages of the function executed so far
    gdf,                   \* the joined frame, then with the LISA columns
    w,                     \* neighbours of every row position
    sim,                   \* per row, the summary of the simulated statistics
    result,                \* the returned value: None or the final frame
    runs,                  \* number of completed invocations
    prev                   \* result of the previous invocation on these inputs

vars == <<GEOSPATIAL_AVAILABLE, df, df_geo, contiguity, ano, pc, trace, gdf,
          w, sim, result, runs, prev>>

(* ------------------------------ bounds -------------------------------- *)
MaxUnit == 3
MaxRows == 3
MaxRuns == 2

Units == 1..MaxUnit
Years == {2020, 2021}
RequestedYears == {2021}
Taxas == {1, 4, 7}
UFs == {"SP", "BA"}
RegiaoOf(uf) == IF uf = "SP" THEN "Sudeste" ELSE "Nordeste"

\* Python's None and a returned frame, as values of one shape.
None == [table |-> FALSE, rows |-> <<>>]
Frame(rows) == [table |-> TRUE, rows |-> rows]

\* The float NaN, and the missing value of a column of strings.
NaN == <<0, 0>>
NA == "nan"

\* No weights object yet.
NoWeights == <<>>

(* --------------------------- module constants -------------------------- *)
\* A label table that lost its last entry.
CLUSTER_LABELS_short == [q \in 1..3 |->
    CASE q = 1 -> "HH" [] q = 2 -> "LH" [] q = 3 -> "LL"]

CLUSTER_LABELS == [q \in 1..4 |->
    CASE q = 1 -> "HH" [] q = 2 -> "LH" [] q = 3 -> "LL" [] q = 4 -> "HL"]

\* Moran_Local's default number of permutations: the call passes none.
permutations == 999

\* The significance cut 0.05 of line 201, as ThresholdNum / ThresholdDen.
ThresholdNum == 5
ThresholdDen == 100

(* ------------------------------ arithmetic ----------------------------- *)
Abs(x) == IF x < 0 THEN -x ELSE x

RECURSIVE GCD(_, _)
GCD(a, b) == IF b = 0 THEN a ELSE GCD(b, a % b)

\* The rational num/den (den # 0) in lowest terms with a positive denominator.
Rat(num, den) ==
    LET g == GCD(Abs(num), Abs(den))
        s == IF den < 0 THEN -1 ELSE 1
    IN  <<s * (num \div g), Abs(den) \div g>>

RatGE(a, b) == a[1] * b[2] >= b[1] * a[2]
RatAdd(a, b) == Rat(a[1] * b[2] + b[1] * a[2], a[2] * b[2])
RatScale(a, k) == Rat(a[1] * k, a[2])

RECURSIVE SumSeq(_)
SumSeq(s) == IF s = <<>> THEN 0 ELSE Head(s) + SumSeq(Tail(s))

RECURSIVE ProdSeq(_)
ProdSeq(s) == IF s = <<>> THEN 1 ELSE Head(s) * ProdSeq(Tail(s))

RECURSIVE SetToSeq(_)
SetToSeq(S) ==
    IF S = {} THEN <<>>
    ELSE LET m == CHOOSE x \in S : \A y \in S : x <= y
         IN  <<m>> \o SetToSeq(S \ {m})

RECURSIVE Flatten(_)
Flatten(ss) == IF ss = <<>> THEN <<>> ELSE Head(ss) \o Flatten(Tail(ss))

Range(s) == {s[i] : i \in DOMAIN s}

(* ------------------------------- pandas -------------------------------- *)
\* A frame that never counts as empty.
EmptyNever(t) == FALSE

\* DataFrame.empty
Empty(t) == Len(t) = 0

\* df[df["Ano"] == ano].copy()
FilterYear(t, a) == SelectSeq(t, LAMBDA r : r.Ano = a)

\* groupby("cod_mun")["taxa"].mean().reset_index().rename(...): one row per
\* cod_mun, in ascending key order, with the mean of its rows as a rational.
GroupMean(t) ==
    LET keys == SetToSeq({r.cod_mun : r \in Range(t)})
        rowsOf(k) == SelectSeq(t, LAMBDA r : r.cod_mun = k)
        taxas(k) == [j \in 1..Len(rowsOf(k)) |-> rowsOf(k)[j].taxa]
    IN  [i \in 1..Len(keys) |->
            [cod_mun |-> keys[i],
             taxa_abandono |-> Rat(SumSeq(taxas(keys[i])), Len(rowsOf(keys[i])))]]

\* gdf_base.merge(df_media, left_on="code_muni", right_on="cod_mun",
\* how="inner"): the left rows in order, one output row per matching pair.
MergeInner(left, right) ==
    LET matches(l) == SelectSeq(right, LAMBDA r : r.cod_mun = l.cod_mun)
    IN  Flatten([i \in 1..Len(left) |->
            [j \in 1..Len(matches(left[i])) |->
                [code_muni |-> left[i].cod_mun,
                 taxa_abandono |-> matches(left[i])[j].taxa_abandono]]])

\* df_ano[["cod_mun", "UF", "Região"]]
Columns(t) ==
    [i \in 1..Len(t) |->
        [cod_mun |-> t[i].cod_mun, UF |-> t[i].UF, Regiao |-> t[i].Regiao]]

\* DataFrame.drop_duplicates(): the first occurrence of every distinct row.
RECURSIVE DropDuplicatesFrom(_, _)
DropDuplicatesFrom(t, seen) ==
    IF t = <<>> THEN <<>>
    ELSE IF Head(t) \in seen THEN DropDuplicatesFrom(Tail(t), seen)
         ELSE <<Head(t)>> \o DropDuplicatesFrom(Tail(t), seen \cup {Head(t)})

DropDuplicates(t) == DropDuplicatesFrom(t, {})

\* gdf.merge(right, left_on="code_muni", right_on="cod_mun", how="left"):
\* every left row once per matching right row (once, with missing values,
\* when nothing matches).
MergeLeft(left, right) ==
    LET matches(l) == SelectSeq(right, LAMBDA r : r.cod_mun = l.code_muni)
        joined(l, r) ==
            [code_muni |-> l.code_muni, taxa_abandono |-> l.taxa_abandono,
             LISA_I |-> l.LISA_I, LISA_p |-> l.LISA_p,
             LISA_cluster |-> l.LISA_cluster,
             LISA_cluster_label |-> l.LISA_cluster_label,
             UF |-> r.UF, Regiao |-> r.Regiao]
        missing == [UF |-> NA, Regiao |-> NA]
    IN  Flatten([i \in 1..Len(left) |->
            IF Len(matches(left[i])) = 0
            THEN <<joined(left[i], missing)>>
            ELSE [j \in 1..Len(matches(left[i])) |->
                     joined(left[i], matches(left[i])[j])]])

\* A rename that changes the frame it is called on (inplace=True).
rename_inplace(t) ==
    [frame |-> [i \in 1..Len(t) |-> [code_muni |-> t[i].cod_mun]], same |-> TRUE]

\* df_geo.rename(columns={"cod_mun": "code_muni"}): a new frame with the
\* column renamed; `same` tells whether the frame returned is the object it
\* was called on.
rename(t) ==
    [frame |-> [i \in 1..Len(t) |-> [code_muni |-> t[i].cod_mun]], same |-> FALSE]

\* df[mask].copy(): a new frame with the same rows.
copy(t) == [frame |-> t, same |-> FALSE]

\* df_ano["taxa"].astype(float)
AsFloat(t) ==
    [i \in 1..Len(t) |-> [t[i] EXCEPT !.taxa = <<t[i].taxa, 1>>]]

\* The caller's frame `original` once the function has assigned the columns
\* `written` to its local frame `local`: the assignment shows in the
\* caller's frame exactly when both names are bound to one object.
CallerFrame(original, local, written) ==
    IF local.same THEN written ELSE original

(* ------------------------------ libpysal ------------------------------- *)
\* Queen.from_dataframe(gdf): the neighbours of every row position.
Neighbors(g, c) ==
    [i \in 1..Len(g) |->
        {j \in 1..Len(g) : j # i /\ {g[i].code_muni, g[j].code_muni} \in c}]

\* Weights left binary: the transform is not applied.
Weight_binary(wm, i, j) == IF j \in wm[i] THEN <<1, 1>> ELSE <<0, 1>>

\* w.transform = "r": every neighbour of a row weighs 1 / (number of its
\* neighbours); a row without neighbours keeps no weight at all.
Weight(wm, i, j) ==
    IF j \in wm[i] THEN Rat(1, Cardinality(wm[i])) ELSE <<0, 1>>

(* -------------------------------- esda --------------------------------- *)
\* y = gdf["taxa_abandono"].values, every value over the common denominator
\* CommonDen(g): Y(g)[i] / CommonDen(g) is the value of row i.
CommonDen(g) == ProdSeq([i \in 1..Len(g) |-> g[i].taxa_abandono[2]])
Y(g) ==
    LET den == CommonDen(g)
    IN  [i \in 1..Len(g) |-> g[i].taxa_abandono[1] * (den \div g[i].taxa_abandono[2])]

\* z before it is divided by y.std(): n * (y_i - y.mean()) for every row,
\* over the common denominator.
Devs(g) ==
    LET y == Y(g)
        total == SumSeq(y)
    IN  [i \in 1..Len(g) |-> Len(g) * y[i] - total]

Dev(g, i) == Devs(g)[i]

\* n^2 * the sum of the squared deviations; 0 exactly when y.std() is 0.
SumSqOf(d) == SumSeq([k \in DOMAIN d |-> d[k] * d[k]])
SumSq(g) == SumSqOf(Devs(g))

\* slag(w, z): the spatial lag of row i, the weighted sum of the deviations
\* d of the rows 1..j (a rational on the scale of Dev).
RECURSIVE LagUpTo(_, _, _, _)
LagUpTo(d, wm, i, j) ==
    IF j = 0 THEN <<0, 1>>
    ELSE RatAdd(LagUpTo(d, wm, i, j - 1), RatScale(Weight(wm, i, j), d[j]))

Lag(g, wm, i) == LagUpTo(Devs(g), wm, i, Len(g))

\* The local statistic scaled by n instead of n - 1: (z_i / m2) * lag_i.
LocalI_m2(g, wm, i) ==
    LET d == Devs(g)
        ss == SumSqOf(d)
        lag == LagUpTo(d, wm, i, Len(g))
    IN  IF ss = 0 THEN NaN
        ELSE Rat(Len(g) * d[i] * lag[1], lag[2] * ss)

\* Moran_Local.calc: Is = (n - 1) * z * lag / sum(z * z), with
\* z = (y - y.mean()) / y.std(), which is NaN when the standard deviation
\* is 0.
LocalI(g, wm, i) ==
    LET d == Devs(g)
        ss == SumSqOf(d)
        lag == LagUpTo(d, wm, i, Len(g))
    IN  IF ss = 0 THEN NaN
        ELSE Rat((Len(g) - 1) * d[i] * lag[1], lag[2] * ss)

\* A quadrant that counts a zero deviation and a zero lag as positive.
Quadrant_zero_high(g, wm, i) ==
    LET d == Devs(g)
        lag == LagUpTo(d, wm, i, Len(g))
    IN  IF d[i] >= 0
        THEN IF lag[1] >= 0 THEN 1 ELSE 4
        ELSE IF lag[1] >= 0 THEN 2 ELSE 3

\* Moran_Local's quadrant, 1 HH, 2 LH, 3 LL, 4 HL, from zp = z > 0 and
\* lp = lag > 0; with a standard deviation of 0, z and the lag of a row
\* with neighbours are NaN and the lag of a row without is 0: none is > 0.
Quadrant(g, wm, i) ==
    LET d == Devs(g)
        ss == SumSqOf(d)
        lag == LagUpTo(d, wm, i, Len(g))
        zp == ss # 0 /\ d[i] > 0
        lp == ss # 0 /\ lag[1] > 0
    IN  IF zp
        THEN IF lp THEN 1 ELSE 4
        ELSE IF lp THEN 2 ELSE 3

\* Moran_Local(y, w): the observed statistic and the quadrant of every row.
Moran_Local(g, wm) ==
    [i \in 1..Len(g) |-> [Is |-> LocalI(g, wm, i), q |-> Quadrant(g, wm, i)]]

\* The folding of the count of simulated statistics >= Is:
\* low_extreme = (permutations - larger) < larger.
Fold(larger) ==
    IF permutations - larger < larger THEN permutations - larger ELSE larger

\* A p-value without the + 1 of the observed statistic.
PSim_no_plus_one(larger) == <<Fold(larger), permutations>>

\* p_sim = (larger + 1.0) / (permutations + 1.0)
PSim(larger) == <<Fold(larger) + 1, permutations + 1>>

\* The summaries of a row's simulated statistics the model draws from:
\* larger = #{k : I_k >= Is}, abs_larger = #{k : |I_k| >= |Is|}.
Draws ==
    {[larger |-> 48, abs_larger |-> 999],
     [larger |-> 49, abs_larger |-> 999],
     [larger |-> 500, abs_larger |-> 999],
     [larger |-> 999, abs_larger |-> 999],
     [larger |-> 999, abs_larger |-> 49],
     [larger |-> 48, abs_larger |-> 48],
     [larger |-> 950, abs_larger |-> 49]}

\* The summary when Is is NaN: no comparison with NaN holds.
NaNDraw == [larger |-> 0, abs_larger |-> 0]

\* The sum of the deviations d over the row positions S.
SumOver(d, S) == SumSeq([k \in 1..Cardinality(S) |-> d[SetToSeq(S)[k]]])

\* The conditional permutations of row i: the neighbours of the row are
\* replaced by as many rows picked among the others, so a simulated
\* statistic is (n - 1) * z_i * (mean of z over the pick) / sum(z * z).
\* SimSums: the sums of deviations the picks can give.
SimSums(d, wm, i) ==
    {SumOver(d, S) : S \in {T \in SUBSET (DOMAIN d \ {i}) :
                              Cardinality(T) = Cardinality(wm[i])}}

\* The summaries a sample of `permutations` simulated statistics of row i
\* can have: na of them both >= Is and >= |Is| in absolute value, and none
\* in a class no pick falls in.
DrawsFor(g, wm, i) ==
    LET d == Devs(g)
        obs == d[i] * SumOver(d, wm[i])
        sums == SimSums(d, wm, i)
        ge(x) == d[i] * x >= obs
        absge(x) == Abs(d[i] * x) >= Abs(obs)
        hasB == \E x \in sums : ge(x) /\ ~absge(x)
        hasC == \E x \in sums : ~ge(x) /\ absge(x)
        hasD == \E x \in sums : ~ge(x) /\ ~absge(x)
    IN  IF SumSqOf(d) = 0 THEN {NaNDraw}
        ELSE {r \in Draws :
                \E na \in {r.larger, r.abs_larger,
                           r.larger + r.abs_larger - permutations} :
                    LET nb == r.larger - na
                        nc == r.abs_larger - na
                        nd == permutations - r.larger - r.abs_larger + na
                    IN  /\ na >= 0 /\ nb >= 0 /\ nc >= 0 /\ nd >= 0
                        /\ ~hasB => nb = 0
                        /\ ~hasC => nc = 0
                        /\ ~hasD => nd = 0}

(* ----------------------------- the function ---------------------------- *)
\* A cut that leaves p = 0.05 itself significant.
NotSignificant_strict(p) == ~RatGE(<<ThresholdNum, ThresholdDen>>, p)

\* gdf.loc[gdf["LISA_p"] >= 0.05, "LISA_cluster_label"] = "ns"
NotSignificant(p) == RatGE(p, <<ThresholdNum, ThresholdDen>>)

\* gdf["LISA_cluster"].map(CLUSTER_LABELS): a code without an entry maps to
\* a missing value.
MapLabel(q) == IF q \in DOMAIN CLUSTER_LABELS THEN CLUSTER_LABELS[q] ELSE NA

\* Lines 196-201: the four LISA columns of every row, from the statistics
\* lisa and the simulated counts s.
WithLisa(g, lisa, s) ==
    [i \in 1..Len(g) |->
        [code_muni |-> g[i].code_muni,
         taxa_abandono |-> g[i].taxa_abandono,
         LISA_I |-> lisa[i].Is,
         LISA_p |-> PSim(s[i].larger),
         LISA_cluster |-> lisa[i].q,
         LISA_cluster_label |->
            IF NotSignificant(PSim(s[i].larger)) THEN "ns"
            ELSE MapLabel(lisa[i].q)]]

\* return value: the function ends, the caller holds `value`.
Return(value, stages) ==
    /\ result' = value
    /\ trace' = trace \o stages
    /\ pc' = "returned"
    /\ runs' = runs + 1

\* Lines 160-188: the availability check, the year filter, the per-unit mean
\* and the inner join with the geometry table.
calculate_lisa_for_year_join ==
    /\ pc = "call"
    /\ LET df_ano == FilterYear(df, ano)
           df_media == GroupMean(df_ano)
           joined == MergeInner(df_geo, df_media)
       IN  \/ /\ ~GEOSPATIAL_AVAILABLE
              /\ Return(None, <<>>)
              /\ UNCHANGED gdf
           \/ /\ GEOSPATIAL_AVAILABLE
              /\ Empty(df_ano)
              /\ Return(None, <<"filter">>)
              /\ UNCHANGED gdf
           \/ /\ GEOSPATIAL_AVAILABLE
              /\ ~Empty(df_ano)
              /\ Empty(joined)
              /\ Return(None, <<"filter", "groupby", "merge">>)
              /\ UNCHANGED gdf
           \/ /\ GEOSPATIAL_AVAILABLE
              /\ ~Empty(df_ano)
              /\ ~Empty(joined)
              /\ gdf' = joined
              /\ trace' = trace \o <<"filter", "groupby", "merge">>
              /\ pc' = "weights"
              /\ UNCHANGED <<result, runs>>
    /\ IF GEOSPATIAL_AVAILABLE
       THEN LET geo_local == rename(df_geo)
                ano_local == copy(FilterYear(df, ano))
            IN  /\ df_geo' = CallerFrame(df_geo, geo_local, geo_local.frame)
                /\ df' = CallerFrame(df, ano_local,
                                     IF Empty(ano_local.frame) THEN ano_local.frame
                                     ELSE AsFloat(ano_local.frame))
       ELSE UNCHANGED <<df, df_geo>>
    /\ UNCHANGED <<GEOSPATIAL_AVAILABLE, contiguity, ano, w, sim, prev>>

\* Lines 190-192 (and 208-210): the weights; an exception of the library is
\* logged and the function returns None.
calculate_lisa_for_year_weights ==
    /\ pc = "weights"
    /\ \/ /\ w' = Neighbors(gdf, contiguity)
          /\ trace' = trace \o <<"Queen">>
          /\ pc' = "lisa"
          /\ UNCHANGED <<result, runs>>
       \/ /\ Return(None, <<"Queen", "except">>)
          /\ UNCHANGED w
    /\ UNCHANGED <<GEOSPATIAL_AVAILABLE, df, df_geo, contiguity, ano, gdf, sim, prev>>

\* Lines 193-206 (and 208-210): Moran_Local, the labels, the join with the
\* UF and Região of the year's rows, and the return.
calculate_lisa_for_year_lisa ==
    /\ pc = "lisa"
    /\ \/ \E lisa \in {Moran_Local(gdf, w)} :
          \E allowed \in {[i \in 1..Len(gdf) |-> DrawsFor(gdf, w, i)]} :
          \E s \in [1..Len(gdf) -> Draws \cup {NaNDraw}] :
            /\ \A i \in 1..Len(gdf) : s[i] \in allowed[i]
            /\ sim' = s
            /\ gdf' = WithLisa(gdf, lisa, s)
            /\ Return(Frame(MergeLeft(gdf', DropDuplicates(Columns(FilterYear(df, ano))))),
                      <<"Moran_Local", "labels", "merge">>)
       \/ /\ Return(None, <<"Moran_Local", "except">>)
          /\ UNCHANGED <<gdf, sim>>
    /\ UNCHANGED <<GEOSPATIAL_AVAILABLE, df, df_geo, contiguity, ano, w, prev>>

\* The caller invokes the function again with the same arguments (the body
\* runs again: a new session, or a cleared cache).
call_again ==
    /\ pc = "returned"
    /\ runs < MaxRuns
    /\ prev' = result
    /\ pc' = "call"
    /\ trace' = <<>>
    /\ gdf' = <<>>
    /\ w' = NoWeights
    /\ sim' = <<>>
    /\ result' = None
    /\ UNCHANGED <<GEOSPATIAL_AVAILABLE, df, df_geo, contiguity, ano, runs>>

(* ------------------------------- inputs -------------------------------- *)
\* The rows an attribute table is made of: every taxa and UF for the
\* requested years, one row per unit for the other years.
Rows ==
    {r \in [cod_mun : Units, Ano : Years, taxa : Taxas, UF : UFs] :
        r.Ano \notin RequestedYears => r.taxa = 1 /\ r.UF = "SP"}

RowKey(r) ==
    ((r.cod_mun * 10000 + r.Ano) * 100 + r.taxa) * 2 + (IF r.UF = "SP" THEN 0 ELSE 1)

\* The attribute tables of at most MaxRows rows, in one row order per
\* multiset of rows: the filter, the groupby, drop_duplicates and the two
\* merges give the same rows whatever the order of the rows of df.
Tables ==
    UNION {{[i \in 1..n |->
                [cod_mun |-> t[i].cod_mun, Ano |-> t[i].Ano, taxa |-> t[i].taxa,
                 UF |-> t[i].UF, Regiao |-> RegiaoOf(t[i].UF)]] :
            t \in {u \in [1..n -> Rows] :
                    \A i \in 1..(n - 1) : RowKey(u[i]) <= RowKey(u[i + 1])}} :
           n \in 0..MaxRows}

\* The geometry tables: one row per unit of a set of units.
GeoTables ==
    {[i \in 1..Len(SetToSeq(S)) |-> [cod_mun |-> SetToSeq(S)[i]]] : S \in SUBSET Units}

PairsOf(t) ==
    {{t[i].cod_mun, t[j].cod_mun} : i, j \in 1..Len(t)} \ {{t[i].cod_mun} : i \in 1..Len(t)}

InitLocals ==
    /\ pc = "call"
    /\ trace = <<>>
    /\ gdf = <<>>
    /\ w = NoWeights
    /\ sim = <<>>
    /\ result = None
    /\ runs = 0
    /\ prev = None

\* Without the libraries the function returns before it reads a table: the
\* tables of at most one row stand for all of them there.
Init ==
    /\ GEOSPATIAL_AVAILABLE \in BOOLEAN
    /\ df \in Tables
    /\ ~GEOSPATIAL_AVAILABLE => Len(df) <= 1
    /\ df_geo \in GeoTables
    /\ contiguity \in SUBSET PairsOf(df_geo)
    /\ ano \in RequestedYears
    /\ InitLocals

Next ==
    \/ calculate_lisa_for_year_join
    \/ calculate_lisa_for_year_weights
    \/ calculate_lisa_for_year_lisa

Spec == Init /\ [][Next]_vars

\* Two invocations with the same arguments, on the tables with one row per
\* unit, all of the requested year.
InitRerun ==
    /\ Init
    /\ GEOSPATIAL_AVAILABLE
    /\ \A i \in DOMAIN df : df[i].Ano = ano
    /\ \A i, j \in DOMAIN df : df[i].cod_mun = df[j].cod_mun => i = j

NextRerun == Next \/ call_again

SpecRerun == InitRerun /\ [][NextRerun]_vars

\* The five units A-B-C-D-E in a line, y = [10, 10, 10, 1, 1].
FixtureY == <<10, 10, 10, 1, 1>>

InitFixture ==
    /\ GEOSPATIAL_AVAILABLE = TRUE
    /\ df = [i \in 1..5 |->
                [cod_mun |-> i, Ano |-> 2021, taxa |-> FixtureY[i],
                 UF |-> "SP", Regiao |-> RegiaoOf("SP")]]
    /\ df_geo = [i \in 1..5 |-> [cod_mun |-> i]]
    /\ contiguity = {{i, i + 1} : i \in 1..4}
    /\ ano = 2021
    /\ InitLocals

SpecFixture == InitFixture /\ [][Next]_vars

(* ------------------------------ properties ----------------------------- *)
Returned == pc = "returned"
ReturnedTable == pc = "returned" /\ result.table

\* The unit ids of the rows of the requested year, of the geometry table,
\* and of both.
YearIds == {df[i].cod_mun : i \in {k \in DOMAIN df : df[k].Ano = ano}}
GeoIds == {df_geo[i].cod_mun : i \in DOMAIN df_geo}
JointIds == YearIds \cap GeoIds

Labels == {"HH", "LH", "LL", "HL", "ns"}

\* The row of gdf a row of the result comes from.
GdfRowOf(r) == CHOOSE i \in DOMAIN gdf : gdf[i].code_muni = r.code_muni

\* Every row of the result carries the LISA columns of its row of gdf.
RowsFromGdf ==
    \A k \in DOMAIN result.rows :
        LET r == result.rows[k]
            g == gdf[GdfRowOf(r)]
        IN  /\ r.LISA_I = g.LISA_I /\ r.LISA_p = g.LISA_p
            /\ r.LISA_cluster = g.LISA_cluster
            /\ r.LISA_cluster_label = g.LISA_cluster_label

\* C1 (as amended): in every returned table a row is labelled "ns" exactly
\* when its p-value is >= 0.05, the fixed cut of the function, and a row
\* with a p-value below 0.05 is labelled with its quadrant HH, LH, LL or HL.
C1_NsIffPAtLeastFixedCut ==
    ReturnedTable =>
        /\ RowsFromGdf
        /\ \A k \in DOMAIN result.rows :
            LET r == result.rows[k]
            IN  /\ r.LISA_cluster_label = "ns" <=> r.LISA_p[1] * 100 >= 5 * r.LISA_p[2]
                /\ r.LISA_p[1] * 100 < 5 * r.LISA_p[2] =>
                    /\ r.LISA_cluster_label \in {"HH", "LH", "LL", "HL"}
                    /\ r.LISA_cluster_label = CLUSTER_LABELS[r.LISA_cluster]

\* C1 witness: a returned table with a row at p = 0.05 exactly, labelled
\* "ns", and a row at p = 0.049 labelled with its quadrant.
C1_Witness ==
    /\ ReturnedTable
    /\ \E k \in DOMAIN result.rows :
        /\ result.rows[k].LISA_p = <<50, 1000>>
        /\ result.rows[k].LISA_cluster_label = "ns"
    /\ \E k \in DOMAIN result.rows :
        /\ result.rows[k].LISA_p = <<49, 1000>>
        /\ result.rows[k].LISA_cluster_label = "HH"

\* The thresholds a caller may want to apply.
Thresholds == {<<1, 100>>, <<5, 100>>, <<10, 100>>}

\* C1 (as stated): for every threshold the caller supplies, a row is
\* labelled "ns" exactly when its p-value is >= that threshold.
C1_NsIffPAtLeastCallerThreshold ==
    ReturnedTable =>
        \A t \in Thresholds : \A k \in DOMAIN result.rows :
            result.rows[k].LISA_cluster_label = "ns" <=> RatGE(result.rows[k].LISA_p, t)

\* The sign of the deviation y_i - mean(y) and of the spatial lag of row i
\* of gdf, from the joined frame and the weights.
DevSign(i) == IF Dev(gdf, i) > 0 THEN "+" ELSE "-"
LagSign(i) == IF Lag(gdf, w, i)[1] > 0 THEN "+" ELSE "-"

\* The quadrant table: (sign of the deviation, sign of the lag) -> code.
SignTable ==
    [s \in {"+", "-"} \X {"+", "-"} |->
        CASE s = <<"+", "+">> -> 1
          [] s = <<"-", "+">> -> 2
          [] s = <<"-", "-">> -> 3
          [] s = <<"+", "-">> -> 4]

\* C2: in every returned table the quadrant of a row is decided by the signs
\* of its deviation and of its lag alone, zero counting as not positive
\* (+,+ HH; -,+ LH; -,- LL; +,- HL), whatever its p-value; a row labelled HH
\* or HL has a positive deviation, a row labelled LH or LL has not; and the
\* codes 1, 2, 3, 4 read HH, LH, LL, HL.
C2_QuadrantFromSigns ==
    /\ CLUSTER_LABELS = <<"HH", "LH", "LL", "HL">>
    /\ ReturnedTable =>
        \A i \in DOMAIN gdf :
            LET q == gdf[i].LISA_cluster
                l == gdf[i].LISA_cluster_label
            IN  /\ q = SignTable[<<DevSign(i), LagSign(i)>>]
                /\ l \in {"HH", "HL"} => Dev(gdf, i) > 0
                /\ l \in {"LH", "LL"} => Dev(gdf, i) <= 0

\* C2 witness: a returned table with a significant row whose deviation is
\* positive and whose lag is exactly zero, labelled HL, and a significant
\* row whose deviation is exactly zero and whose lag is positive, labelled LH.
C2_Witness ==
    /\ ReturnedTable
    /\ \E i \in DOMAIN gdf :
        /\ Dev(gdf, i) > 0 /\ Lag(gdf, w, i)[1] = 0
        /\ gdf[i].LISA_cluster_label = "HL"
    /\ \E i \in DOMAIN gdf :
        /\ Dev(gdf, i) = 0 /\ Lag(gdf, w, i)[1] > 0
        /\ gdf[i].LISA_cluster_label = "LH"

\* C3 (as amended): the number of permutations is the fixed 999, and in
\* every returned table the p-value of a row is (c + 1) / 1000 where c is
\* the smaller of L and 999 - L, L being the number of simulated statistics
\* >= the observed one (signed, no absolute values); so
\* 1/1000 <= p <= 1 and p is never 0.
C3_PValueFoldedCount ==
    /\ permutations = 999
    /\ ReturnedTable =>
        \A i \in DOMAIN gdf :
            LET L == sim[i].larger
                c == IF L <= 999 - L THEN L ELSE 999 - L
                p == gdf[i].LISA_p
            IN  /\ p = <<c + 1, 1000>>
                /\ p[1] >= 1 /\ p[1] <= p[2] /\ p[2] = permutations + 1

\* C3 witness: a returned table with a row all of whose 999 simulated
\* statistics are >= the observed one, at p = 1/1000.
C3_Witness ==
    /\ ReturnedTable
    /\ \E i \in DOMAIN gdf :
        /\ sim[i].larger = 999 /\ sim[i].abs_larger = 999
        /\ gdf[i].LISA_p = <<1, 1000>>

\* C3 (as stated): the p-value of a row is (number of simulated statistics
\* with |I_k| >= |I|, plus 1) / (P + 1).
C3_PValueAbsoluteCount ==
    ReturnedTable =>
        \A i \in DOMAIN gdf :
            gdf[i].LISA_p = <<sim[i].abs_larger + 1, permutations + 1>>

\* C4 (as stated): two invocations on the same tables and year that both
\* return a table return the same I, p-value and label for every unit.
C4_RepeatedRunsAgree ==
    (pc = "returned" /\ runs = 2 /\ result.table /\ prev.table) => result = prev

\* The value x, to 3 decimals, is e / 1000.
Round3(x, e) == 2 * Abs(1000 * x[1] - e * x[2]) <= x[2]

\* C5 (as amended): on the line A-B-C-D-E with y = [10, 10, 10, 1, 1] every
\* returned table has the deviations [3.6, 3.6, 3.6, -5.4, -5.4] from the
\* mean, m2 = 19.44, I = [0.533, 0.533, -0.133, 0.2, 1.2] to 3 decimals
\* (that is (n - 1) / n times 0.667, 0.667, -0.167, 0.25, 1.5) and the
\* quadrants HH, HH, HL, LL, LL, whatever the simulated statistics.
C5_FixtureValues ==
    ReturnedTable =>
        /\ Len(gdf) = 5
        /\ \A i \in 1..5 : gdf[i].code_muni = i
        /\ \A i \in 1..5 : 10 * Dev(gdf, i) = <<36, 36, 36, -54, -54>>[i] * 5
        /\ 100 * SumSq(gdf) = 1944 * 5 * 5 * 5
        /\ \A i \in 1..5 :
            /\ Round3(gdf[i].LISA_I, <<533, 533, -133, 200, 1200>>[i])
            /\ CLUSTER_LABELS[gdf[i].LISA_cluster] = <<"HH", "HH", "HL", "LL", "LL">>[i]
        /\ RowsFromGdf

\* C5 witness: the fixture's table is returned, all five rows, with unit C
\* significant.
C5_Witness ==
    /\ ReturnedTable
    /\ Len(result.rows) = 5
    /\ result.rows[3].LISA_cluster_label = "HL"

\* C5 (as stated): on the fixture every returned table has
\* I = [0.667, 0.667, -0.167, 0.25, 1.5] to 3 decimals and the quadrants
\* HH, HH, HL, LL, LL.
C5_FixtureValuesAsStated ==
    ReturnedTable =>
        \A i \in 1..5 :
            /\ Round3(gdf[i].LISA_I, <<667, 667, -167, 250, 1500>>[i])
            /\ CLUSTER_LABELS[gdf[i].LISA_cluster] = <<"HH", "HH", "HL", "LL", "LL">>[i]

\* The number of rows of the result for unit id.
RowsOfUnit(id) ==
    Cardinality({k \in DOMAIN result.rows : result.rows[k].code_muni = id})

\* C6 (as stated): a returned table has exactly one row for every unit that
\* is in the year's attribute rows and in the geometry table, and no row for
\* any other unit.
C6_OneRowPerJoinedUnit ==
    ReturnedTable =>
        \A id \in YearIds \cup GeoIds \cup {result.rows[k].code_muni : k \in DOMAIN result.rows} :
            RowsOfUnit(id) = (IF id \in JointIds THEN 1 ELSE 0)

\* C7: when the attribute table has no row of the requested year, or the
\* year's rows and the geometry table share no unit, the function never
\* gets to the weights or to Moran_Local, and what it returns is None.
C7_NothingToJoinReturnsNone ==
    (YearIds = {} \/ JointIds = {}) =>
        /\ pc \in {"call", "returned"}
        /\ w = NoWeights
        /\ "Queen" \notin Range(trace) /\ "Moran_Local" \notin Range(trace)
        /\ result = None

\* C7 witness: the function has returned None right after the merge, for a
\* year with rows none of which has a geometry.
C7_Witness ==
    /\ Returned
    /\ GEOSPATIAL_AVAILABLE
    /\ YearIds # {} /\ GeoIds # {} /\ JointIds = {}
    /\ trace = <<"filter", "groupby", "merge">>
    /\ result = None

\* C8 (as stated): with exactly one joined unit the function stops before
\* it builds weights: Queen.from_dataframe is never called, and no table is
\* returned.
C8_OneUnitStopsBeforeWeights ==
    (GEOSPATIAL_AVAILABLE /\ Cardinality(JointIds) = 1) =>
        /\ "Queen" \notin Range(trace)
        /\ w = NoWeights
        /\ ~result.table

\* A float: a rational with a positive denominator, or NaN.
IsFloat(x) == x = NaN \/ x[2] > 0

C10_IsolateHasZeroI ==
    (ReturnedTable /\ Len(gdf) >= 2) =>
        \A i \in DOMAIN gdf :
            w[i] = {} =>
                /\ RowsOfUnit(gdf[i].code_muni) >= 1
                /\ Lag(gdf, w, i) = <<0, 1>>
                /\ gdf[i].LISA_I = <<0, 1>>

\* The weights are built: Queen.from_dataframe has returned.
WeightsBuilt == pc \in {"lisa", "returned"} /\ "Queen" \in Range(trace) /\ w # NoWeights

\* The sum of the weights of row i.
RowSum(i) == LagUpTo([k \in DOMAIN gdf |-> 1], w, i, Len(gdf))

\* C11: once the weights are built the neighbour relation is symmetric and
\* has no self-loop, every neighbour of a row with c neighbours weighs 1 / c
\* and the row's weights sum to 1, every weight of a row without neighbours
\* is 0 (its row sums to 0), and no row has a weight on itself.
C11_RowStandardizedWeights ==
    WeightsBuilt =>
        /\ DOMAIN w = DOMAIN gdf
        /\ \A i \in DOMAIN gdf :
            /\ i \notin w[i]
            /\ Weight(w, i, i) = <<0, 1>>
            /\ \A j \in DOMAIN gdf :
                /\ j \in w[i] <=> i \in w[j]
                /\ j \in w[i] => Weight(w, i, j) = <<1, Cardinality(w[i])>>
                /\ j \notin w[i] => Weight(w, i, j) = <<0, 1>>
            /\ w[i] # {} => RowSum(i) = <<1, 1>>
            /\ w[i] = {} => RowSum(i) = <<0, 1>>

\* C11 witness: weights built for three rows, one with two neighbours that
\* weigh 1/2 each and have that row as their only neighbour.
C11_Witness ==
    /\ WeightsBuilt
    /\ Len(gdf) = 3
    /\ \E i \in DOMAIN gdf :
        /\ Cardinality(w[i]) = 2
        /\ \A j \in w[i] : Weight(w, i, j) = <<1, 2>> /\ Cardinality(w[j]) = 1

\* No row has a neighbour: the adjacency has no pair at all.
AllIsolates == \A i \in DOMAIN w : w[i] = {}

\* C12 (as stated): a table returned when every row is an isolate has
\* I = 0, p = 1 and the label "ns" in every row; stated for the attribute
\* vectors that are not constant, where I is a number.
C12_AllIsolatesSentinel ==
    (ReturnedTable /\ AllIsolates /\ SumSq(gdf) # 0) =>
        \A k \in DOMAIN result.rows :
            /\ result.rows[k].LISA_I = <<0, 1>>
            /\ result.rows[k].LISA_p[1] = result.rows[k].LISA_p[2]
            /\ result.rows[k].LISA_cluster_label = "ns"


\* The attribute vector of the joined frame is constant: m2 = 0.
ConstantAttribute == SumSq(gdf) = 0

\* C13 (as stated): a table returned for a constant attribute vector of two
\* units or more has I = 0 in every row, never the outcome of a division by
\* zero.
C13_ConstantVectorHasZeroI ==
    (ReturnedTable /\ ConstantAttribute /\ Len(gdf) >= 2) =>
        \A k \in DOMAIN result.rows :
            /\ result.rows[k].LISA_I # NaN
            /\ result.rows[k].LISA_I = <<0, 1>>


\* C14: no step of the function changes the caller's attribute table or
\* geometry table (rows, columns, column names), whether the call goes on
\* to return a table or None, so a later call sees the same arguments.
C14_CallerTablesUnchanged == [][df' = df /\ df_geo' = df_geo]_vars

\* C14 witness: a table is returned whose rows carry the renamed column
\* code_muni and float rates, while the caller's three-row geometry table
\* still has the column cod_mun and its attribute table its integer rates.
C14_Witness ==
    /\ ReturnedTable
    /\ Len(df_geo) = 3 /\ Len(gdf) = 3
    /\ \A i \in DOMAIN df_geo : DOMAIN df_geo[i] = {"cod_mun"}
    /\ \A i \in DOMAIN gdf : "code_muni" \in DOMAIN gdf[i] /\ gdf[i].taxa_abandono[2] = 1
    /\ \A i \in DOMAIN df : df[i].taxa \in Taxas

=============================================================================
